---------------------------- MODULE Spec2Model ----------------------------
(***************************************************************************)
(* State-machine model of the Swiss German Lesson Lab backend              *)
(* (src/main.py): the memoized sentence-batch generator, lesson assembly,  *)
(* the memoized TTS client handle and the audio acquisition handler.       *)
(*                                                                         *)
(* Python strings are sequences of code points (naturals).  Optional[str]  *)
(* is a record [some, s].  JSON values are tagged records.                 *)
(***************************************************************************)
EXTENDS Integers, Sequences, FiniteSets, TLC

(***************************************************************************)
(* Strings                                                                 *)
(***************************************************************************)

\* The ASCII code points for which str.isspace() is true.
Whitespace == {9, 10, 11, 12, 13, 28, 29, 30, 31, 32}

RECURSIVE lstrip(_)
lstrip(s) ==
    IF s = <<>> THEN <<>>
    ELSE IF Head(s) \in Whitespace THEN lstrip(Tail(s)) ELSE s

RECURSIVE rstrip(_)
rstrip(s) ==
    IF s = <<>> THEN <<>>
    ELSE IF s[Len(s)] \in Whitespace THEN rstrip(SubSeq(s, 1, Len(s) - 1)) ELSE s

\* str.strip()
strip(s) == rstrip(lstrip(s))

\* Optional[str]
NoneText == [some |-> FALSE, s |-> <<>>]
SomeText(s) == [some |-> TRUE, s |-> s]

(***************************************************************************)
(* JSON values as json.loads returns them, and Python's str() of them      *)
(***************************************************************************)

JNull == [t |-> "null"]
JNum(n) == [t |-> "num", n |-> n]
JStr(s) == [t |-> "str", s |-> s]
JList(items) == [t |-> "list", items |-> items]
\* A JSON object: fields is a function from the keys present to their values.
JDict(fields) == [t |-> "dict", fields |-> fields]

\* dict.get(key, default)
dict_get(d, key, default) ==
    IF key \in DOMAIN d.fields THEN d.fields[key] ELSE default

\* str(v): a str is itself, None is "None", a one-digit int is its digit,
\* an empty list is "[]", an empty dict is "{}".
py_str(v) ==
    CASE v.t = "str" -> v.s
      [] v.t = "null" -> <<78, 111, 110, 101>>
      [] v.t = "num" -> <<48 + v.n>>
      [] v.t = "list" -> <<91, 93>>
      [] v.t = "dict" -> <<123, 125>>

(***************************************************************************)
(* _generate_sentence_batch: the function body under the lru_cache         *)
(***************************************************************************)

\* One normalized pair.
Pair(sw, ref) == [swiss_sentence |-> sw, reference_translation |-> ref]

\* The loop with the emptiness test made before trimming instead of after.
RECURSIVE normalize_entries_TestBeforeStrip(_, _)
normalize_entries_TestBeforeStrip(payload, normalized) ==
    IF payload = <<>> THEN normalized
    ELSE
        LET entry == Head(payload) IN
        IF entry.t # "dict" THEN normalize_entries_TestBeforeStrip(Tail(payload), normalized)
        ELSE
            LET swiss_sentence == py_str(dict_get(entry, "swiss_sentence", JStr(<<>>)))
                reference_translation ==
                    py_str(dict_get(entry, "reference_translation", JStr(<<>>)))
            IN  IF swiss_sentence # <<>> /\ reference_translation # <<>>
                THEN normalize_entries_TestBeforeStrip(Tail(payload),
                         Append(normalized,
                                Pair(strip(swiss_sentence), strip(reference_translation))))
                ELSE normalize_entries_TestBeforeStrip(Tail(payload), normalized)

\* The for-loop over the payload's entries (lines 146-157), entry by entry.
RECURSIVE normalize_entries(_, _)
normalize_entries(payload, normalized) ==
    IF payload = <<>> THEN normalized
    ELSE
        LET entry == Head(payload) IN
        IF entry.t # "dict" THEN normalize_entries(Tail(payload), normalized)
        ELSE
            LET swiss_sentence ==
                    strip(py_str(dict_get(entry, "swiss_sentence", JStr(<<>>))))
                reference_translation ==
                    strip(py_str(dict_get(entry, "reference_translation", JStr(<<>>))))
            IN  IF swiss_sentence # <<>> /\ reference_translation # <<>>
                THEN normalize_entries(Tail(payload),
                         Append(normalized, Pair(swiss_sentence, reference_translation)))
                ELSE normalize_entries(Tail(payload), normalized)

\* The message content the code parses (line 140): "[]" when there is no choice.
\* A content is [c |-> "none"] (None or ""), [c |-> "invalid"] (json.loads
\* raises) or [c |-> "json", value |-> v] (json.loads returns v).
response_content(up) ==
    IF up.kind = "no_choices" THEN [c |-> "json", value |-> JList(<<>>)] ELSE up.content

\* Lines 142-163: parse the content; any exception, a non-list payload and an
\* empty normalized list all return [].
parse_content(content) ==
    IF content.c = "invalid" THEN <<>>
    ELSE
        LET payload == IF content.c = "none" THEN JList(<<>>) ELSE content.value IN
        IF payload.t = "list" THEN normalize_entries(payload.items, <<>>) ELSE <<>>

\* The whole body for one upstream outcome `up`.  up.kind is "client_fails"
\* (OpenAI() raises), "call_throws" (chat.completions.create raises),
\* "no_choices" or "content".  Neither of the first two is inside a try.
generate_sentence_batch_body(up) ==
    IF up.kind \in {"client_fails", "call_throws"}
    THEN [raised |-> TRUE, value |-> <<>>]
    ELSE [raised |-> FALSE, value |-> parse_content(response_content(up))]

\* Whether the body reaches client.chat.completions.create (line 132).
calls_upstream(up) == up.kind # "client_fails"

(***************************************************************************)
(* functools.lru_cache(maxsize=24): entries in recency order, LRU first    *)
(***************************************************************************)

maxsize == 24

CacheKeys(c) == {c[i].key : i \in 1..Len(c)}

CacheHas(c, k) == k \in CacheKeys(c)

CacheIndex(c, k) == CHOOSE i \in 1..Len(c) : c[i].key = k

CacheGet(c, k) == c[CacheIndex(c, k)].value

\* A hit that leaves the recency order alone (first-in first-out eviction).
CacheTouch_NoMove(c, k) == c

\* A hit moves the entry to the most-recently-used end.
CacheTouch(c, k) ==
    LET i == CacheIndex(c, k) IN
    Append(SubSeq(c, 1, i - 1) \o SubSeq(c, i + 1, Len(c)), c[i])

\* A miss whose call returned: when full, the oldest entry is dropped.
CacheInsert(c, k, v) ==
    IF Len(c) >= maxsize
    THEN Append(Tail(c), [key |-> k, value |-> v])
    ELSE Append(c, [key |-> k, value |-> v])

\* The wrapper if it stored no empty result.
lru_call_SkipsEmpty(c, k, up) ==
    IF CacheHas(c, k)
    THEN [cache |-> CacheTouch(c, k), hit |-> TRUE, upstream |-> FALSE,
          raised |-> FALSE, result |-> CacheGet(c, k), evicted |-> {}]
    ELSE
        LET r == generate_sentence_batch_body(up) IN
        IF r.raised
        THEN [cache |-> c, hit |-> FALSE, upstream |-> calls_upstream(up),
              raised |-> TRUE, result |-> <<>>, evicted |-> {}]
        ELSE
            LET c2 == IF r.value = <<>> THEN c ELSE CacheInsert(c, k, r.value) IN
            [cache |-> c2, hit |-> FALSE, upstream |-> TRUE,
             raised |-> FALSE, result |-> r.value,
             evicted |-> CacheKeys(c) \ CacheKeys(c2)]

\* One call of the cached function with key k when the body, if run, sees
\* upstream outcome up.  Gives the cache after the call and what happened.
lru_call(c, k, up) ==
    IF CacheHas(c, k)
    THEN [cache |-> CacheTouch(c, k), hit |-> TRUE, upstream |-> FALSE,
          raised |-> FALSE, result |-> CacheGet(c, k), evicted |-> {}]
    ELSE
        LET r == generate_sentence_batch_body(up) IN
        IF r.raised
        THEN [cache |-> c, hit |-> FALSE, upstream |-> calls_upstream(up),
              raised |-> TRUE, result |-> <<>>, evicted |-> {}]
        ELSE
            LET c2 == CacheInsert(c, k, r.value) IN
            [cache |-> c2, hit |-> FALSE, upstream |-> TRUE,
             raised |-> FALSE, result |-> r.value,
             evicted |-> CacheKeys(c) \ CacheKeys(c2)]


(***************************************************************************)
(* State                                                                   *)
(***************************************************************************)

VARIABLES
    cache,      \* _generate_sentence_batch's lru_cache: <<[key, value]>>, LRU first
    clock,      \* number of calls of _generate_sentence_batch so far
    used,       \* key -> clock of its latest insert or hit (history)
    calls,      \* direct calls made in this run (bounded)
    llm_calls,  \* calls of client.chat.completions.create so far
    last,       \* what the latest call of _generate_sentence_batch did
    lesson_pc,        \* create_lesson: "idle", "loop", "done" or "raised"
    lesson_req,       \* the LessonRequest being served
    lesson_dialect,   \* normalized_dialect
    idx,              \* generate_exercises' loop index
    exercises,        \* generate_exercises' list
    lesson_llm,       \* upstream calls made while serving this request
    lesson_response,  \* the LessonResponse returned
    lessons,          \* lesson requests started in this run (bounded)
    verify_ssl,       \* _is_truthy_env("TTS_SSL_VERIFY", "true"), fixed per process
    tts_client,       \* get_tts_client's lru_cache(maxsize=1): NoClient or the Client
    clients_built,    \* Client(...) constructions that succeeded so far
    handle_failures,  \* calls of get_tts_client that raised so far
    files,            \* the local filesystem: path -> [kind, size]
    tmp_seq,          \* NamedTemporaryFile names handed out so far
    audio,            \* what the latest fetch_audio request did
    audio_requests,   \* audio requests served in this run (bounded)
    tone_text,        \* the text synthesize_placeholder_audio is called with
    workers,          \* threads calling a cached function: thread -> [pc, key]
    returned,         \* key -> batches the function body returned for it, in order (history)
    received          \* <<[thread, client]>>: what get_tts_client returned, in order (history)

batchVars == <<cache, clock, used, calls, llm_calls, last>>

lessonVars ==
    <<lesson_pc, lesson_req, lesson_dialect, idx, exercises, lesson_llm,
      lesson_response, lessons>>

audioVars ==
    <<verify_ssl, tts_client, clients_built, handle_failures, files, tmp_seq,
      audio, audio_requests>>

threadVars == <<tone_text, workers, returned, received>>

vars == <<batchVars, lessonVars, audioVars, threadVars>>

NoCall ==
    [key |-> [topic |-> <<>>, book_text |-> NoneText], hit |-> FALSE,
     upstream |-> FALSE, raised |-> FALSE, result |-> <<>>, evicted |-> {},
     up |-> [kind |-> "unused"]]

\* The cache key of a call: the (topic, book_text) argument tuple, compared
\* exactly.
CacheKey(topic, book_text) == [topic |-> topic, book_text |-> book_text]

\* _generate_sentence_batch(topic, book_text) through its lru_cache wrapper,
\* with upstream outcome up if the body runs.
generate_sentence_batch(k, up) ==
    LET r == lru_call(cache, k, up) IN
    /\ cache' = r.cache
    /\ clock' = clock + 1
    /\ used' = IF r.raised THEN used ELSE (k :> (clock + 1)) @@ used
    /\ llm_calls' = llm_calls + (IF r.upstream THEN 1 ELSE 0)
    /\ last' = [key |-> k, hit |-> r.hit, upstream |-> r.upstream,
                raised |-> r.raised, result |-> r.result, evicted |-> r.evicted,
                up |-> up]

dialect_choices ==
    {"Aarau", "Bern", "Basel", "Graubünden", "Luzern", "St. Gallen", "Valais", "Zürich"}

\* The requested dialect passed on as it came.
normalize_dialect_Identity(dialect) == dialect

\* Lines 196 and 253: a dialect outside dialect_choices becomes "Zürich".
normalize_dialect(dialect) ==
    IF dialect \in dialect_choices THEN dialect ELSE "Zürich"

(***************************************************************************)
(* get_tts_client: the Client behind lru_cache(maxsize=1)                  *)
(***************************************************************************)

NoClient == [built |-> FALSE, ssl_verify |-> FALSE, serial |-> 0]

\* The Client object the n-th successful construction yields.
Client(ssl_verify, n) == [built |-> TRUE, ssl_verify |-> ssl_verify, serial |-> n]

\* The body with a second attempt whatever the configured setting is.
get_tts_client_body_AlwaysRetry(verify, first_ok, retry_ok, n) ==
    IF first_ok
    THEN [attempts |-> <<[ssl_verify |-> verify, ok |-> TRUE]>>,
          raised |-> FALSE, client |-> Client(verify, n)]
    ELSE [attempts |-> <<[ssl_verify |-> verify, ok |-> FALSE],
                         [ssl_verify |-> FALSE, ok |-> retry_ok]>>,
          raised |-> ~retry_ok,
          client |-> IF retry_ok THEN Client(FALSE, n) ELSE NoClient]

\* The function body (lines 58-72).  verify is the configured setting;
\* first_ok and retry_ok say whether Client(base_url, ssl_verify=verify) and
\* Client(base_url, ssl_verify=False) succeed if attempted; n numbers the
\* Client built.
get_tts_client_body(verify, first_ok, retry_ok, n) ==
    IF first_ok
    THEN [attempts |-> <<[ssl_verify |-> verify, ok |-> TRUE]>>,
          raised |-> FALSE, client |-> Client(verify, n)]
    ELSE IF verify
    THEN IF retry_ok
         THEN [attempts |-> <<[ssl_verify |-> verify, ok |-> FALSE],
                              [ssl_verify |-> FALSE, ok |-> TRUE]>>,
               raised |-> FALSE, client |-> Client(FALSE, n)]
         ELSE [attempts |-> <<[ssl_verify |-> verify, ok |-> FALSE],
                              [ssl_verify |-> FALSE, ok |-> FALSE]>>,
               raised |-> TRUE, client |-> NoClient]
    ELSE [attempts |-> <<[ssl_verify |-> verify, ok |-> FALSE]>>,
          raised |-> TRUE, client |-> NoClient]

\* A failure marker in the cache slot.
FailedClient == [built |-> FALSE, ssl_verify |-> FALSE, serial |-> -1]

\* The wrapper if it stored a raised exception like a result.
get_tts_client_CachesFailure(memo, verify, first_ok, retry_ok, n) ==
    IF memo.built
    THEN [memo |-> memo, attempts |-> <<>>, raised |-> FALSE, client |-> memo]
    ELSE IF memo = FailedClient
    THEN [memo |-> memo, attempts |-> <<>>, raised |-> TRUE, client |-> NoClient]
    ELSE
        LET r == get_tts_client_body(verify, first_ok, retry_ok, n) IN
        [memo |-> IF r.raised THEN FailedClient ELSE r.client, attempts |-> r.attempts,
         raised |-> r.raised, client |-> r.client]

\* The wrapper if it ran the body on every call.
get_tts_client_NoMemo(memo, verify, first_ok, retry_ok, n) ==
    LET r == get_tts_client_body(verify, first_ok, retry_ok, n) IN
    [memo |-> IF r.raised THEN memo ELSE r.client, attempts |-> r.attempts,
     raised |-> r.raised, client |-> r.client]

\* One call through lru_cache(maxsize=1) with memo the cache slot: a stored
\* Client is returned without running the body; a call that raises stores
\* nothing.
get_tts_client(memo, verify, first_ok, retry_ok, n) ==
    IF memo.built
    THEN [memo |-> memo, attempts |-> <<>>, raised |-> FALSE, client |-> memo]
    ELSE
        LET r == get_tts_client_body(verify, first_ok, retry_ok, n) IN
        [memo |-> IF r.raised THEN memo ELSE r.client, attempts |-> r.attempts,
         raised |-> r.raised, client |-> r.client]

(***************************************************************************)
(* Paths and the local filesystem                                          *)
(***************************************************************************)

\* A path, and the str that spells one, is its final component: a stem and an
\* extension ("" for none).
PathOf(stem, ext) == [stem |-> stem, ext |-> ext]

\* The empty str.
EmptyName == PathOf(<<>>, "")

\* The current directory, ".".
CwdPath == PathOf(<<46>>, "")

\* Path(name), lines 263 and 265: Path("") is Path("."), any other name is the
\* path it spells.
Path(name) == IF name = EmptyName THEN CwdPath ELSE name

\* Path.exists(): the current directory always does.
path_exists(fs, path) == path = CwdPath \/ path \in DOMAIN fs

is_dir(fs, path) == path = CwdPath \/ (path \in DOMAIN fs /\ fs[path].kind = "dir")

\* audio_path.name.startswith("tmp")
name_startswith_tmp(path) ==
    Len(path.stem) >= 3 /\ SubSeq(path.stem, 1, 3) = <<116, 109, 112>>

\* mimetypes.guess_type by extension; None is "".
guess_type(path) ==
    CASE path.ext = "wav" -> "audio/x-wav"
      [] path.ext = "mp3" -> "audio/mpeg"
      [] OTHER -> ""

RegularFile(size) == [kind |-> "file", size |-> size]

\* fs without path.
remove_path(fs, path) == [q \in DOMAIN fs \ {path} |-> fs[q]]

(***************************************************************************)
(* synthesize_placeholder_audio                                            *)
(***************************************************************************)

sample_rate == 22050

\* Text lengths below 75 at which the double product duration * sample_rate
\* lies just under the integer 11025 + 882 * n, so that int() gives one less.
FloatShortLengths == {5, 21, 22, 41, 42, 43, 44, 45, 57}

\* int(min(3.5, 0.5 + len(text) / 25) * sample_rate), line 216 and 229.
total_frames(n) ==
    IF n >= 75 THEN (7 * sample_rate) \div 2
    ELSE IF n \in FloatShortLengths
    THEN sample_rate \div 2 + (sample_rate \div 25) * n - 1
    ELSE sample_rate \div 2 + (sample_rate \div 25) * n

\* Bytes of the WAV file: a 44-byte header and 2 bytes per frame.
wav_size(n) == 44 + 2 * total_frames(n)

\* The name NamedTemporaryFile(suffix=".wav") hands out: "tmp" and a serial.
TmpPath(n) == PathOf(<<116, 109, 112, 48 + n>>, "wav")

\* One call with outcome how: "ok", "create_fails" (NamedTemporaryFile
\* raises), "write_fails" (writing the frames raises; delete=False leaves the
\* file, of the header alone).
synthesize_placeholder_audio(fs, text, n, how) ==
    CASE how = "ok" ->
            [fs |-> (TmpPath(n) :> RegularFile(wav_size(Len(text)))) @@ fs,
             raised |-> FALSE, path |-> TmpPath(n), created |-> {TmpPath(n)}]
      [] how = "write_fails" ->
            [fs |-> (TmpPath(n) :> RegularFile(44)) @@ fs,
             raised |-> TRUE, path |-> CwdPath, created |-> {TmpPath(n)}]
      [] OTHER ->
            [fs |-> fs, raised |-> TRUE, path |-> CwdPath, created |-> {}]

(***************************************************************************)
(* encode_audio_file                                                       *)
(***************************************************************************)

\* base64.b64encode(binary).decode(): 4 characters per 3 bytes, padded.
b64_len(size) == 4 * ((size + 2) \div 3)

NoResponse == [audio_base64 |-> [len |-> 0, of |-> CwdPath], content_type |-> ""]

\* The encoder if it answered a failed read with an empty payload.
encode_audio_file_EmptyOnError(fs, audio_path, read_ok) ==
    LET mime_type == IF guess_type(audio_path) # "" THEN guess_type(audio_path)
                     ELSE "audio/wav"
    IN  IF is_dir(fs, audio_path) \/ ~read_ok
        THEN [raised |-> FALSE,
              response |-> [audio_base64 |-> [len |-> 0, of |-> audio_path],
                            content_type |-> mime_type]]
        ELSE [raised |-> FALSE,
              response |-> [audio_base64 |-> [len |-> b64_len(fs[audio_path].size),
                                              of |-> audio_path],
                            content_type |-> mime_type]]

\* read_ok: whether read_bytes succeeds on a regular file; a directory always
\* raises.
encode_audio_file(fs, audio_path, read_ok) ==
    LET mime_type == IF guess_type(audio_path) # "" THEN guess_type(audio_path)
                     ELSE "audio/wav"
    IN  IF is_dir(fs, audio_path) \/ ~read_ok
        THEN [raised |-> TRUE, response |-> NoResponse]
        ELSE [raised |-> FALSE,
              response |-> [audio_base64 |-> [len |-> b64_len(fs[audio_path].size),
                                              of |-> audio_path],
                            content_type |-> mime_type]]

(***************************************************************************)
(* fetch_audio                                                             *)
(***************************************************************************)

\* What tts_client.predict returns: None, a str (the name it spells), a list
\* or another value.
TNone == [t |-> "none"]
TStr(name) == [t |-> "str", path |-> name]
TList(items) == [t |-> "list", items |-> items]
TNum == [t |-> "num"]

\* Lines 260-265: the path taken from the result, if any.
result_path(result) ==
    IF result.t = "list" /\ result.items # <<>>
    THEN IF result.items[1].t = "str"
         THEN [some |-> TRUE, path |-> Path(result.items[1].path)]
         ELSE [some |-> FALSE, path |-> CwdPath]
    ELSE IF result.t = "str"
    THEN [some |-> TRUE, path |-> Path(result.path)]
    ELSE [some |-> FALSE, path |-> CwdPath]

\* The remote call made whether or not a Client was obtained.
calls_predict_Always(have_client) == TRUE

\* Line 249: the remote call is made only with a Client in hand.
calls_predict(have_client) == have_client

\* The number of attempts that built a Client.
built_count(attempts) == Cardinality({i \in 1..Len(attempts) : attempts[i].ok})

\* Lines 272-274: the cleanup; unlink_ok says whether unlink succeeds (its
\* exception is swallowed by the return in the finally block).
cleanup(fs, audio_path, unlink_ok) ==
    IF path_exists(fs, audio_path) /\ name_startswith_tmp(audio_path) /\ unlink_ok
       /\ ~is_dir(fs, audio_path)
    THEN remove_path(fs, audio_path)
    ELSE fs

\* The whole handler for one request.  env gives what the world does if
\* asked: first_ok, retry_ok (client construction), predict ([throws, value,
\* writes]: the files the remote call leaves behind), synth, read_ok,
\* unlink_ok.
fetch_audio(request, env) ==
    LET h == get_tts_client(tts_client, verify_ssl, env.first_ok, env.retry_ok,
                            clients_built + 1)
        have_client == ~h.raised
        called == calls_predict(have_client)
        result == IF called /\ ~env.predict.throws THEN env.predict.value ELSE TNone
        fs1 == IF called THEN env.predict.writes @@ files ELSE files
        found == IF called THEN result_path(result)
                 ELSE [some |-> FALSE, path |-> CwdPath]
        need_synth == ~found.some \/ ~path_exists(fs1, found.path)
        syn == IF need_synth
               THEN synthesize_placeholder_audio(fs1, request.text, tmp_seq + 1, env.synth)
               ELSE [fs |-> fs1, raised |-> FALSE, path |-> found.path, created |-> {}]
        enc == IF syn.raised THEN [raised |-> TRUE, response |-> NoResponse]
               ELSE encode_audio_file(syn.fs, syn.path, env.read_ok)
        fs3 == IF syn.raised \/ enc.raised THEN syn.fs
               ELSE cleanup(syn.fs, syn.path, env.unlink_ok)
    IN  [tts_client |-> h.memo,
         built |-> built_count(h.attempts),
         files |-> fs3,
         tmp_used |-> IF need_synth /\ syn.created # {} THEN 1 ELSE 0,
         audio |->
            [outcome |-> IF syn.raised \/ enc.raised THEN "raised" ELSE "returned",
             request |-> request,
             memo_before |-> tts_client,
             failed_before |-> handle_failures,
             attempts |-> h.attempts,
             client_failed |-> h.raised,
             client |-> h.client,
             predict_calls |-> IF called THEN 1 ELSE 0,
             predict_args |-> IF called
                              THEN <<request.text, normalize_dialect(request.dialect)>>
                              ELSE <<>>,
             predict_threw |-> called /\ env.predict.throws,
             result |-> result,
             existing |-> DOMAIN fs1 \cup {CwdPath},
             synth_called |-> need_synth,
             synth_env |-> env.synth,
             read_ok |-> env.read_ok,
             source |-> IF syn.raised THEN CwdPath ELSE syn.path,
             temps |-> syn.created
                       \cup (IF found.some /\ path_exists(fs1, found.path)
                                /\ name_startswith_tmp(found.path)
                             THEN {found.path} ELSE {}),
             io_fault |-> \/ need_synth /\ env.synth # "ok"
                          \/ ~syn.raised /\ ~is_dir(syn.fs, syn.path) /\ ~env.read_ok
                          \/ /\ ~syn.raised /\ ~enc.raised /\ ~env.unlink_ok
                             /\ name_startswith_tmp(syn.path),
             response |-> enc.response]]

NoAudio ==
    [outcome |-> "none", request |-> [text |-> <<>>, dialect |-> ""],
     memo_before |-> NoClient, failed_before |-> 0, attempts |-> <<>>, client_failed |-> FALSE,
     client |-> NoClient, predict_calls |-> 0, predict_args |-> <<>>,
     predict_threw |-> FALSE, result |-> TNone, existing |-> {CwdPath},
     synth_called |-> FALSE, synth_env |-> "ok", read_ok |-> TRUE,
     source |-> CwdPath, temps |-> {},
     io_fault |-> FALSE, response |-> NoResponse]

AudioIdle ==
    /\ tts_client = NoClient
    /\ clients_built = 0
    /\ handle_failures = 0
    /\ files = <<>>
    /\ tmp_seq = 0
    /\ audio = NoAudio
    /\ audio_requests = 0

\* No thread inside a cached function.
WorkersIdle ==
    /\ workers = <<>>
    /\ returned = <<>>
    /\ received = <<>>

\* No direct call of the tone synthesizer either.
ThreadsIdle ==
    /\ tone_text = <<>>
    /\ WorkersIdle

\* A call site of _generate_sentence_batch: the upstream outcome is drawn only
\* when the key is not stored, since a hit does not run the body.
CallBatch(k, ups) ==
    IF CacheHas(cache, k)
    THEN generate_sentence_batch(k, [kind |-> "unused"])
    ELSE \E up \in ups : generate_sentence_batch(k, up)

(***************************************************************************)
(* Lesson assembly: build_sentence, generate_exercises, create_lesson      *)
(***************************************************************************)

\* "dini Idee"
DiniIdee == <<100, 105, 110, 105, 32, 73, 100, 101, 101>>

\* "Mir bruuche meh Infos zum Thema "
PlaceholderHead ==
    <<77, 105, 114, 32, 98, 114, 117, 117, 99, 104, 101, 32, 109, 101, 104, 32,
      73, 110, 102, 111, 115, 32, 122, 117, 109, 32, 84, 104, 101, 109, 97, 32>>

\* ", drum probier s Sätzli nomol."
PlaceholderTail ==
    <<44, 32, 100, 114, 117, 109, 32, 112, 114, 111, 98, 105, 101, 114, 32, 115,
      32, 83, 228, 116, 122, 108, 105, 32, 110, 111, 109, 111, 108, 46>>

\* "Need more topic details to generate a sentence."
FallbackTranslation ==
    <<78, 101, 101, 100, 32, 109, 111, 114, 101, 32, 116, 111, 112, 105, 99, 32,
      100, 101, 116, 97, 105, 108, 115, 32, 116, 111, 32, 103, 101, 110, 101, 114,
      97, 116, 101, 32, 97, 32, 115, 101, 110, 116, 101, 110, 99, 101, 46>>

\* Lines 172-176: the placeholder pair for a topic.
placeholder_sentence(topic) ==
    LET topic_piece == IF strip(topic) # <<>> THEN strip(topic) ELSE DiniIdee IN
    <<PlaceholderHead \o topic_piece \o PlaceholderTail, FallbackTranslation>>

\* The lookup with the batch's last pair out of reach.
build_sentence_LastPairDropped(topic, batch, i) ==
    IF i + 1 < Len(batch)
    THEN <<batch[i + 1].swiss_sentence, batch[i + 1].reference_translation>>
    ELSE placeholder_sentence(topic)

\* build_sentence once _generate_sentence_batch has returned batch
\* (lines 168-176); idx counts from 0, sequences from 1.
build_sentence(topic, batch, i) ==
    IF i < Len(batch)
    THEN <<batch[i + 1].swiss_sentence, batch[i + 1].reference_translation>>
    ELSE placeholder_sentence(topic)

\* The Exercise with the loop index itself as id.
Exercise_IdFromZero(i, sentence, dialect) ==
    [id |-> i,
     swiss_sentence |-> sentence[1],
     translation_hint |-> <<"Translate this ", dialect, " dialect sentence into English.">>,
     reference_translation |-> sentence[2]]

\* The Exercise appended for loop index i (lines 183-190).
Exercise(i, sentence, dialect) ==
    [id |-> i + 1,
     swiss_sentence |-> sentence[1],
     translation_hint |-> <<"Translate this ", dialect, " dialect sentence into English.">>,
     reference_translation |-> sentence[2]]

\* range(6) of generate_exercises.
ExerciseCount == 6

NoRequest == [topic |-> <<>>, book_text |-> NoneText, dialect |-> ""]

LessonIdle ==
    /\ lesson_pc = "idle"
    /\ lesson_req = NoRequest
    /\ lesson_dialect = ""
    /\ idx = 0
    /\ exercises = <<>>
    /\ lesson_llm = 0
    /\ lesson_response = <<>>
    /\ lessons = 0

MaxLessons == 2

\* create_lesson is entered with a validated request (line 195-197): the
\* dialect is normalized and generate_exercises starts its loop.
CreateLesson(reqs) ==
    /\ lesson_pc # "loop"
    /\ lessons < MaxLessons
    /\ \E req \in reqs :
        /\ lesson_req' = req
        /\ lesson_dialect' = normalize_dialect(req.dialect)
    /\ lesson_pc' = "loop"
    /\ idx' = 0
    /\ exercises' = <<>>
    /\ lesson_llm' = 0
    /\ lesson_response' = <<>>
    /\ lessons' = lessons + 1
    /\ UNCHANGED <<batchVars, audioVars, threadVars>>

\* One iteration of generate_exercises' loop (lines 181-190): build_sentence
\* calls _generate_sentence_batch; an exception it raises leaves the handler.
LessonStep(ups) ==
    /\ lesson_pc = "loop"
    /\ idx < ExerciseCount
    /\ CallBatch(CacheKey(lesson_req.topic, lesson_req.book_text), ups)
    /\ lesson_llm' = lesson_llm + (IF last'.upstream THEN 1 ELSE 0)
    /\ IF last'.raised
       THEN /\ lesson_pc' = "raised"
            /\ UNCHANGED <<idx, exercises>>
       ELSE /\ lesson_pc' = "loop"
            /\ exercises' =
                  Append(exercises,
                         Exercise(idx, build_sentence(lesson_req.topic, last'.result, idx),
                                  lesson_dialect))
            /\ idx' = idx + 1
    /\ UNCHANGED <<calls, lesson_req, lesson_dialect, lesson_response, lessons>>
    /\ UNCHANGED <<audioVars, threadVars>>

\* The loop is over: generate_exercises returns and create_lesson builds the
\* LessonResponse (line 198).
LessonReturn ==
    /\ lesson_pc = "loop"
    /\ idx >= ExerciseCount
    /\ lesson_pc' = "done"
    /\ lesson_response' =
          [topic |-> lesson_req.topic, dialect |-> lesson_dialect, exercises |-> exercises]
    /\ UNCHANGED <<batchVars, lesson_req, lesson_dialect, idx, exercises, lesson_llm, lessons>>
    /\ UNCHANGED <<audioVars, threadVars>>

(***************************************************************************)
(* SpecCache: direct calls of _generate_sentence_batch over more keys than *)
(* the cache holds                                                         *)
(***************************************************************************)

MaxCalls == 3
HotKeys == 2
NewKeys == 1

\* "t01", "t02", ...: distinct topics of three characters.
Topic(i) == <<116, 48 + (i \div 10), 48 + (i % 10)>>

\* Key 2j-1 and key 2j share topic j and differ in book_text only.
Key(i) ==
    CacheKey(Topic((i + 1) \div 2),
             IF i % 2 = 1 THEN NoneText ELSE SomeText(<<98>>))

\* The batch the i-th warm-up call returned.
WarmBatch(i) ==
    IF i % 3 = 0 THEN <<>> ELSE <<Pair(<<97>>, <<48 + (i % 10)>>)>>

\* The cache after n calls with keys Key(1)..Key(n), each a miss that returned.
Warm(n) == [i \in 1..n |-> [key |-> Key(i), value |-> WarmBatch(i)]]

WarmUsed(n) == [k \in {Key(i) : i \in 1..n} |-> CHOOSE i \in 1..n : Key(i) = k]

\* The keys the calls of this specification use: the oldest of a warm cache,
\* the newest, and keys not stored yet.
CallKeys == {Key(i) : i \in (1..HotKeys) \cup ((maxsize - 1)..(maxsize + NewKeys))}

OneEntry(sw, ref) ==
    JList(<<JDict([swiss_sentence |-> JStr(sw), reference_translation |-> JStr(ref)])>>)

\* Upstream outcomes: the client cannot be built, the call throws, the reply
\* is not JSON, the reply holds one valid entry (two different ones).
CacheUpstream ==
    { [kind |-> "client_fails"],
      [kind |-> "call_throws"],
      [kind |-> "content", content |-> [c |-> "invalid"]],
      [kind |-> "content", content |-> [c |-> "json", value |-> OneEntry(<<32, 120>>, <<121>>)]],
      [kind |-> "content", content |-> [c |-> "json", value |-> OneEntry(<<122>>, <<119, 10>>)]] }

InitCache ==
    /\ \E n \in {0, maxsize - 1} :
        /\ cache = Warm(n)
        /\ clock = n
        /\ used = WarmUsed(n)
    /\ calls = 0
    /\ llm_calls = 0
    /\ last = NoCall
    /\ LessonIdle
    /\ verify_ssl = TRUE
    /\ AudioIdle
    /\ ThreadsIdle

\* A direct call _generate_sentence_batch(topic, book_text), made while no
\* lesson request is being served.
GetBatch(keys, ups) ==
    /\ lesson_pc # "loop"
    /\ calls < MaxCalls
    /\ calls' = calls + 1
    /\ \E k \in keys : CallBatch(k, ups)
    /\ UNCHANGED <<lessonVars, audioVars, threadVars>>

NextCache == GetBatch(CallKeys, CacheUpstream)

SpecCache == InitCache /\ [][NextCache]_vars

(***************************************************************************)
(* SpecLesson: lesson requests served one after the other                  *)
(***************************************************************************)

MaxBatch == 7

\* The i-th entry of a well-formed reply: "s<i>" and "r<i>".
GoodEntry(i) ==
    JDict([swiss_sentence |-> JStr(<<115, 48 + i>>),
           reference_translation |-> JStr(<<114, 48 + i>>)])

GoodReply(n) ==
    [kind |-> "content",
     content |-> [c |-> "json", value |-> JList([i \in 1..n |-> GoodEntry(i)])]]

\* Every kind of outcome of the language-model step, with replies of 0 to
\* MaxBatch valid entries.
LessonUpstream ==
    { [kind |-> "client_fails"],
      [kind |-> "call_throws"],
      [kind |-> "no_choices"],
      [kind |-> "content", content |-> [c |-> "invalid"]] }
    \cup {GoodReply(n) : n \in 0..MaxBatch}

\* Validated requests (topic of at least 3 characters): "abc" and "   ".
LessonRequests ==
    [topic : {<<97, 98, 99>>, <<32, 32, 32>>},
     book_text : {NoneText, SomeText(<<98>>)},
     dialect : {"Bern", "Mars"}]

InitLesson ==
    /\ cache = <<>>
    /\ clock = 0
    /\ used = <<>>
    /\ calls = 0
    /\ llm_calls = 0
    /\ last = NoCall
    /\ LessonIdle
    /\ verify_ssl = TRUE
    /\ AudioIdle
    /\ ThreadsIdle

NextLesson ==
    \/ CreateLesson(LessonRequests)
    \/ LessonStep(LessonUpstream)
    \/ LessonReturn

SpecLesson == InitLesson /\ [][NextLesson]_vars

(***************************************************************************)
(* SpecParse: direct calls whose upstream reply is any small JSON value    *)
(***************************************************************************)

MaxEntries == 2

\* Values of "swiss_sentence": " " (blank), " a\n", the number 5.
SwissValues == {JStr(<<32>>), JStr(<<32, 97, 10>>), JNum(5)}

\* Values of "reference_translation": "" (empty), "c", null.
ReferenceValues == {JStr(<<>>), JStr(<<99>>), JNull}

\* Objects with each field absent or present.
ObjectEntries ==
    {JDict(<<>>)}
    \cup {JDict([swiss_sentence |-> sw]) : sw \in SwissValues}
    \cup {JDict([reference_translation |-> ref]) : ref \in ReferenceValues}
    \cup {JDict([swiss_sentence |-> sw, reference_translation |-> ref]) :
             sw \in SwissValues, ref \in ReferenceValues}

\* Entries of a reply: objects, and values that are not objects.
ReplyEntries == ObjectEntries \cup {JNum(7), JStr(<<97>>)}

ReplyLists == UNION {[1..n -> ReplyEntries] : n \in 0..MaxEntries}

ParseUpstream ==
    { [kind |-> "call_throws"],
      [kind |-> "no_choices"],
      [kind |-> "content", content |-> [c |-> "none"]],
      [kind |-> "content", content |-> [c |-> "invalid"]],
      [kind |-> "content", content |-> [c |-> "json", value |-> JNum(7)]],
      [kind |-> "content", content |-> [c |-> "json", value |-> GoodEntry(1)]] }
    \cup {[kind |-> "content", content |-> [c |-> "json", value |-> JList(items)]] :
             items \in ReplyLists}

ParseKeys == {Key(1)}

NextParse == GetBatch(ParseKeys, ParseUpstream)

SpecParse == InitLesson /\ [][NextParse]_vars

(***************************************************************************)
(* SpecAudio: audio requests served one after the other                    *)
(***************************************************************************)

MaxAudio == 2

\* "audio.wav", a file the remote client downloads, and "tmpr", a temporary
\* file without extension.
RemoteWav == PathOf(<<97, 117, 100, 105, 111>>, "wav")
RemoteTmp == PathOf(<<116, 109, 112, 114>>, "")

Returns(value, writes) == [throws |-> FALSE, value |-> value, writes |-> writes]

\* What predict may do: throw, or return a value of any shape, having left
\* the named file absent, empty or with content.
Predicts ==
    { [throws |-> TRUE, value |-> TNone, writes |-> <<>>],
      Returns(TNone, <<>>),
      Returns(TList(<<>>), <<>>),
      Returns(TList(<<TNum>>), <<>>),
      Returns(TNum, <<>>),
      Returns(TStr(EmptyName), <<>>),
      Returns(TList(<<TStr(RemoteTmp)>>), <<>>),
      Returns(TList(<<TStr(RemoteTmp)>>), RemoteTmp :> RegularFile(9)) }
    \cup UNION { {Returns(TStr(RemoteWav), w), Returns(TList(<<TStr(RemoteWav)>>), w)} :
                    w \in {<<>>, RemoteWav :> RegularFile(0), RemoteWav :> RegularFile(7)} }

\* At most one local I/O fault takes effect in a request, since the first two
\* end it: none, NamedTemporaryFile raises, writing the frames raises,
\* read_bytes raises, unlink raises.
IoFaults == {"none", "create_fails", "write_fails", "read_fails", "unlink_fails"}

AudioEnv(first_ok, retry_ok, predict, io) ==
    [first_ok |-> first_ok, retry_ok |-> retry_ok, predict |-> predict,
     synth |-> IF io \in {"create_fails", "write_fails"} THEN io ELSE "ok",
     read_ok |-> io # "read_fails",
     unlink_ok |-> io # "unlink_fails"]

\* Requests: the empty text and "hello", a listed dialect and an unlisted one.
AudioRequests ==
    [text : {<<>>, <<104, 101, 108, 108, 111>>}, dialect : {"Bern", "Mars"}]

InitAudio ==
    /\ cache = <<>>
    /\ clock = 0
    /\ used = <<>>
    /\ calls = 0
    /\ llm_calls = 0
    /\ last = NoCall
    /\ LessonIdle
    /\ verify_ssl \in BOOLEAN
    /\ AudioIdle
    /\ ThreadsIdle

\* One audio request, from entry to return or exception.  The outcomes of
\* the client constructions are drawn only when get_tts_client attempts them;
\* ios are the local I/O faults that may occur.
FetchAudio(requests, predicts, ios) ==
    /\ audio_requests < MaxAudio
    /\ audio_requests' = audio_requests + 1
    /\ \E request \in requests :
       \E first_ok \in (IF tts_client.built THEN {TRUE} ELSE BOOLEAN) :
       \E retry_ok \in (IF tts_client.built \/ first_ok \/ ~verify_ssl
                        THEN {TRUE} ELSE BOOLEAN) :
       \E r \in {fetch_audio(request, AudioEnv(first_ok, retry_ok, predict, io)) :
                    predict \in predicts, io \in ios} :
            /\ tts_client' = r.tts_client
            /\ clients_built' = clients_built + r.built
            /\ handle_failures' = handle_failures + (IF r.audio.client_failed THEN 1 ELSE 0)
            /\ files' = r.files
            /\ tmp_seq' = tmp_seq + r.tmp_used
            /\ audio' = r.audio
    /\ UNCHANGED <<verify_ssl, batchVars, lessonVars, threadVars>>

NextAudio == FetchAudio(AudioRequests, Predicts, IoFaults)

SpecAudio == InitAudio /\ [][NextAudio]_vars

(***************************************************************************)
(* SpecTone: synthesize_placeholder_audio called with a text of any length *)
(***************************************************************************)

MaxTextLen == 100

\* "aaa...": a text of n characters.
TextOfLen(n) == [i \in 1..n |-> 97]

InitTone ==
    /\ cache = <<>>
    /\ clock = 0
    /\ used = <<>>
    /\ calls = 0
    /\ llm_calls = 0
    /\ last = NoCall
    /\ LessonIdle
    /\ verify_ssl = TRUE
    /\ AudioIdle
    /\ tone_text \in {TextOfLen(n) : n \in 0..MaxTextLen}
    /\ WorkersIdle

\* synthesize_placeholder_audio(tone_text), once, without an I/O fault.
SynthesizeTone ==
    /\ tmp_seq = 0
    /\ LET r == synthesize_placeholder_audio(files, tone_text, tmp_seq + 1, "ok") IN
        /\ files' = r.fs
        /\ tmp_seq' = tmp_seq + Cardinality(r.created)
    /\ UNCHANGED <<batchVars, lessonVars, threadVars>>
    /\ UNCHANGED <<verify_ssl, tts_client, clients_built, handle_failures, audio,
                   audio_requests>>

NextTone == SynthesizeTone

SpecTone == InitTone /\ [][NextTone]_vars

(***************************************************************************)
(* Threads calling the cached functions at the same time.  The lru_cache   *)
(* wrapper looks the key up under its lock, runs the function body with    *)
(* the lock released, and takes the lock again to store the result; a      *)
(* thread may be switched out while it is in the body.  (The two request   *)
(* handlers are coroutines without an await, so the requests of one event  *)
(* loop never overlap; what overlaps is calls made from several threads.)  *)
(***************************************************************************)

NumThreads == 2
MaxThreadCalls == 3

Threads == 1..NumThreads

NoKey == CacheKey(<<>>, NoneText)

IdleWorker == [pc |-> "idle", key |-> NoKey]

\* The store with no second lookup of the key.
lru_store_NoRecheck(c, k, v) == CacheInsert(c, k, v)

\* The wrapper's second critical section, after the body returned v: a key
\* stored in the meantime is left as it is, with its value and its place in
\* the recency order; otherwise v is inserted.
lru_store(c, k, v) == IF CacheHas(c, k) THEN c ELSE CacheInsert(c, k, v)

\* The keys the threads call with: one a warm cache holds, two it does not.
ThreadKeys == {Key(1), Key(maxsize), Key(maxsize + 1)}

InitBatchThreads ==
    /\ \E n \in {0, maxsize - 1} :
        /\ cache = Warm(n)
        /\ clock = n
        /\ used = WarmUsed(n)
        /\ returned = [k \in {Key(i) : i \in 1..n} |-> <<CacheGet(Warm(n), k)>>]
    /\ calls = 0
    /\ llm_calls = 0
    /\ last = NoCall
    /\ LessonIdle
    /\ verify_ssl = TRUE
    /\ AudioIdle
    /\ tone_text = <<>>
    /\ workers = [t \in Threads |-> IdleWorker]
    /\ received = <<>>

\* Thread t calls _generate_sentence_batch: the wrapper's first critical
\* section.  A hit returns the stored batch at once; a miss enters the body.
BatchLookup(t, keys) ==
    /\ workers[t].pc = "idle"
    /\ calls < MaxThreadCalls
    /\ calls' = calls + 1
    /\ clock' = clock + 1
    /\ \E k \in keys :
        IF CacheHas(cache, k)
        THEN /\ cache' = CacheTouch(cache, k)
             /\ used' = (k :> (clock + 1)) @@ used
             /\ last' = [key |-> k, hit |-> TRUE, upstream |-> FALSE, raised |-> FALSE,
                         result |-> CacheGet(cache, k), evicted |-> {},
                         up |-> [kind |-> "unused"]]
             /\ UNCHANGED workers
        ELSE /\ workers' = [workers EXCEPT ![t] = [pc |-> "batch_body", key |-> k]]
             /\ UNCHANGED <<cache, used, last>>
    /\ UNCHANGED <<llm_calls, returned, received, tone_text, lessonVars, audioVars>>

\* Thread t's body ends with upstream outcome up: an exception leaves the
\* cache alone, a batch goes through the second critical section.
BatchReturn(t, ups) ==
    /\ workers[t].pc = "batch_body"
    /\ \E up \in ups :
        LET k == workers[t].key
            r == generate_sentence_batch_body(up)
            c2 == IF r.raised THEN cache ELSE lru_store(cache, k, r.value)
        IN  /\ cache' = c2
            /\ used' = IF r.raised \/ CacheHas(cache, k) THEN used
                        ELSE (k :> (clock + 1)) @@ used
            /\ returned' =
                  IF r.raised THEN returned
                  ELSE (k :> Append(IF k \in DOMAIN returned THEN returned[k] ELSE <<>>,
                                    r.value)) @@ returned
            /\ llm_calls' = llm_calls + (IF calls_upstream(up) THEN 1 ELSE 0)
            /\ last' = [key |-> k, hit |-> FALSE, upstream |-> calls_upstream(up),
                        raised |-> r.raised, result |-> r.value,
                        evicted |-> CacheKeys(cache) \ CacheKeys(c2), up |-> up]
    /\ clock' = clock + 1
    /\ workers' = [workers EXCEPT ![t] = IdleWorker]
    /\ UNCHANGED <<calls, received, tone_text, lessonVars, audioVars>>

NextBatchThreads ==
    \E t \in Threads :
        \/ BatchLookup(t, ThreadKeys)
        \/ BatchReturn(t, CacheUpstream)

SpecBatchThreads == InitBatchThreads /\ [][NextBatchThreads]_vars

\* The slot written whatever it holds.
memo_store_Overwrite(memo, client) == client

\* The second critical section of get_tts_client's wrapper: the one key
\* there is, once stored, is left as it is.
memo_store(memo, client) == IF memo.built THEN memo ELSE client

InitClientThreads ==
    /\ cache = <<>>
    /\ clock = 0
    /\ used = <<>>
    /\ calls = 0
    /\ llm_calls = 0
    /\ last = NoCall
    /\ LessonIdle
    /\ verify_ssl \in BOOLEAN
    /\ AudioIdle
    /\ tone_text = <<>>
    /\ workers = [t \in Threads |-> IdleWorker]
    /\ returned = <<>>
    /\ received = <<>>

\* Thread t calls get_tts_client: a stored Client is returned at once; with
\* none stored the thread enters the body.
ClientLookup(t) ==
    /\ workers[t].pc = "idle"
    /\ calls < MaxThreadCalls
    /\ calls' = calls + 1
    /\ IF tts_client.built
       THEN /\ received' = Append(received, [thread |-> t, client |-> tts_client])
            /\ UNCHANGED workers
       ELSE /\ workers' = [workers EXCEPT ![t] = [pc |-> "client_body", key |-> NoKey]]
            /\ UNCHANGED received
    /\ UNCHANGED <<cache, clock, used, llm_calls, last, returned, tone_text, lessonVars>>
    /\ UNCHANGED <<verify_ssl, tts_client, clients_built, handle_failures, files, tmp_seq,
                   audio, audio_requests>>

\* Thread t's body ends: it raises, or it returns the Client it built, which
\* goes through the second critical section and to the caller.
ClientReturn(t) ==
    /\ workers[t].pc = "client_body"
    /\ \E first_ok \in BOOLEAN :
       \E retry_ok \in (IF first_ok \/ ~verify_ssl THEN {TRUE} ELSE BOOLEAN) :
        LET r == get_tts_client_body(verify_ssl, first_ok, retry_ok, clients_built + 1) IN
        IF r.raised
        THEN /\ handle_failures' = handle_failures + 1
             /\ UNCHANGED <<tts_client, clients_built, received>>
        ELSE /\ tts_client' = memo_store(tts_client, r.client)
             /\ clients_built' = clients_built + built_count(r.attempts)
             /\ received' = Append(received, [thread |-> t, client |-> r.client])
             /\ UNCHANGED handle_failures
    /\ workers' = [workers EXCEPT ![t] = IdleWorker]
    /\ UNCHANGED <<batchVars, lessonVars, returned, tone_text>>
    /\ UNCHANGED <<verify_ssl, files, tmp_seq, audio, audio_requests>>

NextClientThreads ==
    \E t \in Threads :
        \/ ClientLookup(t)
        \/ ClientReturn(t)

SpecClientThreads == InitClientThreads /\ [][NextClientThreads]_vars

(***************************************************************************)
(* SpecDialect: lesson and audio requests with every dialect, served one   *)
(* after the other                                                         *)
(***************************************************************************)

MaxRequests == 2

\* The listed dialects and some that are not: another case, another
\* spelling, the empty str, another place.
RequestDialects == dialect_choices \cup {"zürich", "Zurich", "", "Mars"}

DialectLessonRequests ==
    [topic : {<<97, 98, 99>>}, book_text : {NoneText}, dialect : RequestDialects]

DialectAudioRequests == [text : {<<104, 105>>}, dialect : RequestDialects]

\* A lesson request arrives (the handlers are coroutines without an await:
\* one request runs to its end before the next starts).
DialectLesson ==
    /\ lessons + audio_requests < MaxRequests
    /\ CreateLesson(DialectLessonRequests)

\* An audio request arrives and is served.
DialectAudio ==
    /\ lessons + audio_requests < MaxRequests
    /\ lesson_pc # "loop"
    /\ FetchAudio(DialectAudioRequests, {Returns(TNone, <<>>)}, {"none"})

NextDialect ==
    \/ DialectLesson
    \/ LessonStep({GoodReply(1)})
    \/ LessonReturn
    \/ DialectAudio

SpecDialect == InitLesson /\ [][NextDialect]_vars

(***************************************************************************)
(* Claims about the sentence-batch cache (SpecCache)                       *)
(***************************************************************************)

\* A step that is one call of _generate_sentence_batch.
CallStep == calls' = calls + 1

\* The upstream outcomes the specification calls a failure: the call fails
\* outright, the reply does not parse, or no entry survives.
FailedOutcome(up) ==
    \/ up.kind = "call_throws"
    \/ /\ up.kind \in {"no_choices", "content"}
       /\ parse_content(response_content(up)) = <<>>

\* C3: a call whose key is stored makes no upstream call and returns the
\* stored batch, and two consecutive calls with the same key never both call
\* upstream.
C3_HitNoUpstream ==
    [][CallStep =>
        /\ CacheHas(cache, last'.key) =>
              /\ ~last'.upstream
              /\ ~last'.raised
              /\ llm_calls' = llm_calls
              /\ last'.result = CacheGet(cache, last'.key)
        /\ (calls >= 1 /\ last'.key = last.key) =>
              ~(last.upstream /\ last'.upstream)]_vars

\* The cache lists its keys in the order of their latest use.
RecencyOrdered ==
    /\ CacheKeys(cache) \subseteq DOMAIN used
    /\ \A i, j \in 1..Len(cache) :
          i < j => used[cache[i].key] < used[cache[j].key]

\* C4: at most 24 keys, each once; a call that returns makes its key the most
\* recently used; an insert into a full cache evicts exactly the key used
\* longest ago and keeps the other 23 with their batches.
C4_LruCapacityAndEviction ==
    /\ [](Len(cache) <= maxsize)
    /\ [][CallStep =>
            /\ Len(cache') <= maxsize
            /\ Cardinality(CacheKeys(cache')) = Len(cache')
            /\ RecencyOrdered'
            /\ last'.raised => cache' = cache
            /\ ~last'.raised =>
                  /\ cache'[Len(cache')].key = last'.key
                  /\ \A o \in CacheKeys(cache) \cap CacheKeys(cache') :
                        o # last'.key => CacheGet(cache', o) = CacheGet(cache, o)
            /\ (~last'.raised /\ (last'.hit \/ Len(cache) < maxsize)) =>
                  CacheKeys(cache') = CacheKeys(cache) \cup {last'.key}
            /\ (~last'.raised /\ ~last'.hit /\ Len(cache) = maxsize) =>
                  \E e \in CacheKeys(cache) :
                      /\ \A o \in CacheKeys(cache) : used[e] <= used[o]
                      /\ CacheKeys(cache') = (CacheKeys(cache) \ {e}) \cup {last'.key}
                      /\ Len(cache') = maxsize]_vars

\* A 25th key was inserted after a hit on the oldest key: the key evicted is
\* the second key inserted, and the oldest one is still stored.
C4_Witness ==
    /\ Len(cache) = maxsize
    /\ last.evicted = {Key(2)}
    /\ CacheHas(cache, Key(1))
    /\ last.key = Key(maxsize + 1)

\* C5: a call whose upstream step fails returns an empty batch and stores it,
\* and the next call with that key is a hit that returns the empty batch
\* without an upstream call.
C5_FailureStoredAsEmptyBatch ==
    [][CallStep =>
        /\ (~last'.hit /\ FailedOutcome(last'.up)) =>
              /\ ~last'.raised
              /\ last'.result = <<>>
              /\ CacheHas(cache', last'.key)
              /\ CacheGet(cache', last'.key) = <<>>
        /\ (calls >= 1 /\ ~last.hit /\ FailedOutcome(last.up) /\ last'.key = last.key) =>
              /\ last'.hit
              /\ ~last'.upstream
              /\ last'.result = <<>>]_vars

(***************************************************************************)
(* Claims about lesson assembly (SpecLesson)                               *)
(***************************************************************************)

\* C1: whatever batch the cache yields, a lesson request that returns carries
\* exactly 6 exercises with ids 1, 2, 3, 4, 5, 6 in that order.
C1_SixExercisesIdsInOrder ==
    /\ lesson_pc = "loop" => Len(exercises) = idx
    /\ lesson_pc = "done" =>
          /\ Len(lesson_response.exercises) = 6
          /\ \A i \in 1..6 : lesson_response.exercises[i].id = i

\* A request returned whose batch had fewer than 6 pairs.
C1_Witness ==
    /\ lesson_pc = "done"
    /\ Len(last.result) = 3
    /\ Len(lesson_response.exercises) = 6

\* C2: a lesson request never ends in an exception, whatever the
\* language-model step does, and a request that has returned carries a
\* placeholder sentence at every index the batch does not reach.
C2_LessonNeverRaises ==
    /\ lesson_pc # "raised"
    /\ lesson_pc = "done" =>
          \A i \in 1..6 :
              i > Len(last.result) =>
                  /\ lesson_response.exercises[i].swiss_sentence =
                        placeholder_sentence(lesson_req.topic)[1]
                  /\ lesson_response.exercises[i].reference_translation =
                        FallbackTranslation

\* A step that is one lookup of generate_exercises' loop.
LookupStep == lesson_pc = "loop" /\ clock' = clock + 1

\* The key the request being served looks up.
LessonKey == CacheKey(lesson_req.topic, lesson_req.book_text)

\* C17: exercise j carries pair j of the batch when the batch has one, and
\* otherwise the placeholder sentence about the trimmed topic ("dini Idee" for
\* a blank topic) with the fixed English translation; a lookup adds no cache
\* entry but the one for the request's key, and none once that is stored.
C17_BatchPairsThenPlaceholders ==
    /\ [](\A j \in 1..Len(exercises) :
            LET batch == last.result
                trimmed == strip(lesson_req.topic)
                piece == IF trimmed = <<>> THEN DiniIdee ELSE trimmed
            IN  IF j <= Len(batch)
                THEN /\ exercises[j].swiss_sentence = batch[j].swiss_sentence
                     /\ exercises[j].reference_translation =
                           batch[j].reference_translation
                ELSE /\ exercises[j].swiss_sentence =
                           PlaceholderHead \o piece \o PlaceholderTail
                     /\ exercises[j].reference_translation = FallbackTranslation)
    /\ [](lesson_pc = "done" => lesson_response.exercises = exercises)
    /\ [][LookupStep =>
            /\ CacheKeys(cache') \subseteq CacheKeys(cache) \cup {LessonKey}
            /\ CacheHas(cache, LessonKey) =>
                  /\ CacheKeys(cache') = CacheKeys(cache)
                  /\ Len(cache') = Len(cache)]_vars

\* A request whose batch had 2 pairs returned them first and the placeholder
\* about "dini Idee" after them.
C17_Witness ==
    /\ lesson_pc = "done"
    /\ Len(last.result) = 2
    /\ lesson_req.topic = <<32, 32, 32>>
    /\ lesson_response.exercises[2].swiss_sentence = last.result[2].swiss_sentence
    /\ lesson_response.exercises[3].swiss_sentence =
          PlaceholderHead \o DiniIdee \o PlaceholderTail
    /\ lesson_response.exercises[6].reference_translation = FallbackTranslation

\* C20: the six lookups of one request make at most one upstream call: none
\* when the key is stored at the first lookup, one when it is not and the
\* lookup returns, and none at the second to sixth lookup, also when the
\* batch is empty.
C20_OneUpstreamCallPerLesson ==
    /\ [](lesson_llm <= 1)
    /\ [][LookupStep =>
            /\ idx >= 1 => (last'.hit /\ llm_calls' = llm_calls)
            /\ (idx = 0 /\ CacheHas(cache, LessonKey)) => llm_calls' = llm_calls
            /\ (idx = 0 /\ ~CacheHas(cache, LessonKey) /\ ~last'.raised) =>
                  (llm_calls' = llm_calls + 1 /\ lesson_llm' = 1)]_vars

\* A request returned whose one upstream call gave an empty batch.
C20_Witness ==
    /\ lesson_pc = "done"
    /\ lesson_llm = 1
    /\ last.result = <<>>
    /\ last.hit
    /\ CacheGet(cache, LessonKey) = <<>>

(***************************************************************************)
(* Claims about parsing the upstream reply (SpecParse)                     *)
(***************************************************************************)

\* A text that is empty or holds whitespace only.
IsBlank(str) == \A i \in 1..Len(str) : str[i] \in Whitespace

\* The text of a field an object holds.
FieldText(entry, name) == py_str(entry.fields[name])

\* An upstream entry that is an object holding both fields, neither empty nor
\* blank.
ValidEntry(entry) ==
    /\ entry.t = "dict"
    /\ {"swiss_sentence", "reference_translation"} \subseteq DOMAIN entry.fields
    /\ ~IsBlank(FieldText(entry, "swiss_sentence"))
    /\ ~IsBlank(FieldText(entry, "reference_translation"))

\* The entries of the reply the latest call parsed (none when the reply is
\* not a JSON list).
LastEntries ==
    LET content == response_content(last.up) IN
    IF content.c = "json" /\ content.value.t = "list" THEN content.value.items ELSE <<>>

GoodPair(pair) ==
    /\ pair.swiss_sentence # <<>>
    /\ pair.reference_translation # <<>>
    /\ strip(pair.swiss_sentence) = pair.swiss_sentence
    /\ strip(pair.reference_translation) = pair.reference_translation

\* C6: every pair returned or stored has two non-empty trimmed fields; a
\* call that received a reply does not raise, and its batch, which is the one
\* stored, holds exactly the reply's valid entries, trimmed, in the reply's
\* order (none when the reply is no list or has no valid entry).
C6_OnlyValidPairsInOrder ==
    /\ \A i \in 1..Len(cache) :
          \A j \in 1..Len(cache[i].value) : GoodPair(cache[i].value[j])
    /\ \A j \in 1..Len(last.result) : GoodPair(last.result[j])
    /\ (calls > 0 /\ ~last.hit /\ last.up.kind \in {"no_choices", "content"}) =>
          LET kept == SelectSeq(LastEntries, ValidEntry) IN
          /\ ~last.raised
          /\ Len(last.result) = Len(kept)
          /\ \A j \in 1..Len(kept) :
                /\ last.result[j].swiss_sentence =
                      strip(FieldText(kept[j], "swiss_sentence"))
                /\ last.result[j].reference_translation =
                      strip(FieldText(kept[j], "reference_translation"))
          /\ CacheGet(cache, last.key) = last.result

\* A reply of two entries, the first malformed and the second valid, gave a
\* batch of one pair.
C6_Witness ==
    /\ calls > 0
    /\ ~last.hit
    /\ last.up.kind = "content"
    /\ Len(LastEntries) = 2
    /\ ~ValidEntry(LastEntries[1])
    /\ ValidEntry(LastEntries[2])
    /\ Len(last.result) = 1

(***************************************************************************)
(* Claims about the audio handler and the TTS client (SpecAudio)           *)
(***************************************************************************)

AudioServed == audio.outcome # "none"

\* C7: whatever the remote side does, absent a local I/O fault, the request
\* returns a payload with non-empty audio and a non-empty content type.
C7_AlwaysNonEmptyPayload ==
    (AudioServed /\ ~audio.io_fault) =>
        /\ audio.outcome = "returned"
        /\ audio.response.audio_base64.len > 0
        /\ audio.response.content_type # ""

\* C8: once a request has completed, by return or by exception, none of the
\* temporary audio resources it used exists.
C8_TempResourcesRemoved ==
    AudioServed => \A path \in audio.temps : ~path_exists(files, path)

\* C9: a call of get_tts_client that finds no stored Client makes one attempt
\* with the configured setting, a second one, with verification off, exactly
\* when the first failed and verification was on, and no third; it raises
\* exactly when every attempt made failed, and otherwise returns and stores
\* the Client of the attempt that succeeded.
C9_AtMostTwoAttempts ==
    AudioServed =>
        LET attempts == audio.attempts
            n == Len(audio.attempts)
        IN  /\ n <= 2
            /\ ~audio.memo_before.built =>
                  /\ n >= 1
                  /\ attempts[1].ssl_verify = verify_ssl
                  /\ n = 2 <=> (~attempts[1].ok /\ verify_ssl)
                  /\ n = 2 => ~attempts[2].ssl_verify
                  /\ audio.client_failed <=>
                        \/ ~attempts[1].ok /\ ~verify_ssl
                        \/ n = 2 /\ ~attempts[1].ok /\ ~attempts[2].ok
                  /\ ~audio.client_failed =>
                        /\ attempts[n].ok
                        /\ audio.client.built
                        /\ audio.client.ssl_verify = attempts[n].ssl_verify
                        /\ tts_client = audio.client

\* The first attempt failed with verification on and the second succeeded.
C9_Witness ==
    /\ AudioServed
    /\ Len(audio.attempts) = 2
    /\ audio.attempts[2].ok
    /\ ~audio.client_failed

\* C10: a call that raised leaves nothing stored, and a call made after only
\* failed calls starts with an attempt under the configured setting and
\* returns a Client when one of its attempts succeeds.
C10_FailureNotCached ==
    AudioServed =>
        /\ audio.client_failed => (~tts_client.built /\ tts_client = audio.memo_before)
        /\ audio.failed_before = audio_requests - 1 =>
              /\ Len(audio.attempts) >= 1
              /\ audio.attempts[1].ssl_verify = verify_ssl
              /\ (\E i \in 1..Len(audio.attempts) : audio.attempts[i].ok) =>
                    (~audio.client_failed /\ tts_client.built)

\* A call failed and the next call built the Client.
C10_Witness ==
    /\ AudioServed
    /\ audio.failed_before >= 1
    /\ ~audio.client_failed
    /\ tts_client.built

\* C11: once a call of get_tts_client has returned a Client, every later call
\* returns that same Client without a construction attempt, so at most one
\* Client is ever built in a sequence of calls.
C11_HandleMemoized ==
    /\ clients_built <= 1
    /\ tts_client.built => clients_built = 1
    /\ (AudioServed /\ audio.memo_before.built) =>
          /\ audio.attempts = <<>>
          /\ ~audio.client_failed
          /\ audio.client = audio.memo_before
          /\ tts_client = audio.memo_before

\* A request found the Client an earlier request had built.
C11_Witness ==
    /\ AudioServed
    /\ audio.memo_before.built
    /\ audio.client = audio.memo_before
    /\ audio_requests >= 2

\* C15: a request calls predict at most once and only with a Client in hand;
\* when get_tts_client raises, it calls predict not at all and goes on to the
\* placeholder synthesizer.
C15_RemoteCallOnlyWithHandle ==
    AudioServed =>
        /\ audio.predict_calls <= 1
        /\ audio.predict_calls = 1 => (~audio.client_failed /\ audio.client.built)
        /\ audio.client_failed =>
              /\ audio.predict_calls = 0
              /\ audio.predict_args = <<>>
              /\ audio.synth_called

\* get_tts_client raised after two failed attempts and the request returned
\* the placeholder tone.
C15_Witness ==
    /\ AudioServed
    /\ audio.client_failed
    /\ Len(audio.attempts) = 2
    /\ audio.predict_calls = 0
    /\ audio.synth_called
    /\ audio.outcome = "returned"

\* The tone file could not be created or written, or the resource to encode
\* could not be read (a directory never can).
LocalIoFailure ==
    LET synth_failed == audio.synth_called /\ audio.synth_env # "ok" IN
    \/ synth_failed
    \/ ~synth_failed /\ (~audio.read_ok \/ audio.source = CwdPath)

ResultName(result) ==
    IF result.t = "str" THEN [some |-> TRUE, name |-> result.path]
    ELSE IF result.t = "list" /\ result.items # <<>> /\ result.items[1].t = "str"
    THEN [some |-> TRUE, name |-> result.items[1].path]
    ELSE [some |-> FALSE, name |-> EmptyName]

\* The request obtained a valid remote source: the remote call returned a
\* non-empty str naming a resource that exists.
ValidRemoteSource ==
    /\ audio.predict_calls = 1
    /\ ~audio.predict_threw
    /\ ResultName(audio.result).some
    /\ ResultName(audio.result).name # EmptyName
    /\ ResultName(audio.result).name \in audio.existing

\* C16: the placeholder synthesizer is invoked exactly when no valid remote
\* source was obtained; when one was, no tone file is created and the
\* resource the result names is the one encoded.
C16_SynthIffNoRemoteSource ==
    AudioServed =>
        /\ audio.synth_called <=> ~ValidRemoteSource
        /\ ~audio.synth_called =>
              /\ audio.source = ResultName(audio.result).name
              /\ audio.temps \subseteq {audio.source}
              /\ audio.outcome = "returned" =>
                    audio.response.audio_base64.of = audio.source

(***************************************************************************)
(* Claims about the dialect (SpecDialect)                                  *)
(***************************************************************************)

\* out is what the requested dialect must leave the core as.
DialectPassed(requested, out) ==
    /\ out \in dialect_choices
    /\ requested \in dialect_choices => out = requested
    /\ requested \notin dialect_choices => out = "Zürich"

\* C12: there are 8 listed dialects, and the dialect argument of predict,
\* the dialect of the lesson response and the dialect in every
\* translation_hint is the requested dialect when it is listed and "Zürich"
\* otherwise.
C12_DialectNormalized ==
    /\ Cardinality(dialect_choices) = 8
    /\ \A j \in 1..Len(exercises) :
          DialectPassed(lesson_req.dialect, exercises[j].translation_hint[2])
    /\ lesson_pc = "done" =>
          /\ DialectPassed(lesson_req.dialect, lesson_response.dialect)
          /\ \A j \in 1..Len(lesson_response.exercises) :
                DialectPassed(lesson_req.dialect,
                              lesson_response.exercises[j].translation_hint[2])
    /\ (AudioServed /\ audio.predict_calls = 1) =>
          /\ audio.predict_args[1] = audio.request.text
          /\ DialectPassed(audio.request.dialect, audio.predict_args[2])

\* A lesson asked for with an unlisted dialect was returned, and the remote
\* call of an audio request was made with a listed one.
C12_Witness ==
    /\ lesson_pc = "done"
    /\ lesson_req.dialect = "zürich"
    /\ lesson_response.dialect = "Zürich"
    /\ AudioServed
    /\ audio.predict_calls = 1
    /\ audio.request.dialect = "Graubünden"
    /\ audio.predict_args[2] = "Graubünden"

(***************************************************************************)
(* Claims about the placeholder tone (SpecTone)                            *)
(***************************************************************************)

\* The samples the tone file holds: 2 bytes each after the 44-byte header.
ToneSamples == (files[TmpPath(1)].size - 44) \div 2

\* C14: the tone written for a text holds 11025 + 882 * len(text) samples,
\* capped at 77175.
C14_ToneSampleCount ==
    TmpPath(1) \in DOMAIN files =>
        LET n == 11025 + 882 * Len(tone_text) IN
        ToneSamples = IF n < 77175 THEN n ELSE 77175

(***************************************************************************)
(* Claims about calls from several threads (SpecBatchThreads,              *)
(* SpecClientThreads)                                                      *)
(***************************************************************************)

\* The batches the function body has returned for key k so far.
ReturnedFor(k) == IF k \in DOMAIN returned THEN returned[k] ELSE <<>>

\* At most 24 keys, each once, listed in the order of their latest use.
CacheWellFormed ==
    /\ Len(cache) <= maxsize
    /\ Cardinality(CacheKeys(cache)) = Len(cache)
    /\ RecencyOrdered

\* A step in which thread t's body ends.
BodyEnds(t) == workers[t].pc = "batch_body" /\ workers'[t].pc = "idle"

\* C18 as amended: under every interleaving the cache holds at most 24 keys,
\* each once, in the order of their latest use, and the batch stored for a
\* key is one the body returned for that key: the one of the call that
\* returned while the key was not stored.  A call that returns while its key
\* is stored changes nothing in the cache.
C18_CacheConsistentFirstWriterKept ==
    /\ []CacheWellFormed
    /\ [](\A i \in 1..Len(cache) :
            \E j \in 1..Len(ReturnedFor(cache[i].key)) :
                ReturnedFor(cache[i].key)[j] = cache[i].value)
    /\ [][\A t \in Threads :
            BodyEnds(t) =>
                LET k == workers[t].key IN
                /\ (last'.raised \/ CacheHas(cache, k)) => cache' = cache
                /\ (~last'.raised /\ ~CacheHas(cache, k)) =>
                      /\ CacheGet(cache', k) = last'.result
                      /\ cache'[Len(cache')].key = k]_vars

\* Two threads missed on the same key and returned different batches; the
\* full cache holds the first.
C18_Witness ==
    /\ Len(cache) = maxsize
    /\ \E k \in CacheKeys(cache) :
          /\ Len(ReturnedFor(k)) = 2
          /\ ReturnedFor(k)[1] # ReturnedFor(k)[2]
          /\ CacheGet(cache, k) = ReturnedFor(k)[1]
    /\ \A t \in Threads : workers[t].pc = "idle"

\* C18 as stated: the cache is consistent and the batch stored for a key is
\* the one the body returned last for that key.
C18_LastWriterStored ==
    /\ CacheWellFormed
    /\ \A i \in 1..Len(cache) :
          LET batches == ReturnedFor(cache[i].key) IN
          /\ batches # <<>>
          /\ cache[i].value = batches[Len(batches)]

\* C19: under every interleaving, a stored Client is one whose construction
\* has completed and never changes once stored, and every Client a caller
\* receives is one whose construction has completed.
C19_OneMemoizedHandle ==
    /\ [](tts_client.built =>
            /\ tts_client.serial \in 1..clients_built
            /\ \E j \in 1..Len(received) : received[j].client = tts_client)
    /\ [](\A j \in 1..Len(received) :
            /\ received[j].client.built
            /\ received[j].client.serial \in 1..clients_built)
    /\ [][tts_client.built => tts_client' = tts_client]_vars

\* Two threads built a Client each at the same time: the first is stored and
\* the second caller received its own.
C19_Witness ==
    /\ clients_built = 2
    /\ tts_client.built
    /\ tts_client.serial = 1
    /\ Len(received) >= 2
    /\ received[1].client = tts_client
    /\ received[2].client.serial = 2
    /\ received[1].thread # received[2].thread

=============================================================================
